---- MODULE Spec2Model ----
(***************************************************************************)
(* Model of the live trading executor (src/src/execution/executor.py), the *)
(* strategy logic it drives (src/src/strategy/multi_tf.py), the exchange   *)
(* wrapper (src/src/exchange/binance_spot.py) and the trade journal        *)
(* (src/src/utils/data.py).                                                *)
(*                                                                         *)
(* Numbers.  Prices are small positive integers.  The indicator values the *)
(* code computes in floating point are computed here as exact fractions    *)
(* [num, den] with den > 0, so comparisons are exact.  Strategy parameters *)
(* and the kline limit are scaled down from config.py so that every branch *)
(* of on_bar is reached within a few candles.                              *)
(*                                                                         *)
(* Python values.  None in a numeric or timestamp slot is the number 0     *)
(* (every real price, quantity and close_time is >= 1).  The trend flag is *)
(* one of the strings "None", "np.True_", "np.False_": the executor feeds  *)
(* on_bar numpy arrays, so `fast > slow` is a numpy.bool_, never one of    *)
(* the Python singletons True / False.                                     *)
(***************************************************************************)
EXTENDS Integers, Sequences, FiniteSets, TLC

VARIABLES
    DRY_RUN,              \* config.DRY_RUN
    ENABLE_LIVE_TRADING,  \* config.ENABLE_LIVE_TRADING
    API_CREDENTIALS,      \* BINANCE["API_KEY"] and BINANCE["API_SECRET"] both non-empty
    status,               \* "config_error" | "running" | "crashed"
    feed,                 \* closed candles the exchange would return now (oldest first)
    entry_tf_candles,     \* executor: retained candle batch
    last_close_time,      \* executor: watermark (None before the first accepted candle)
    in_position,          \* executor
    bars_in_trade,        \* executor
    trades,               \* executor: completed trade records
    trade_counter,        \* executor
    current_trade,        \* executor: dict of the open trade, {} when flat
    logic,                \* MultiTFTrendPullbackLogic instance state
    csv,                  \* rows of LIVE_TRADES_CSV
    orders,               \* history: every place_market_order call, in order
    tick                  \* history: what the last loop iteration did

vars == <<DRY_RUN, ENABLE_LIVE_TRADING, API_CREDENTIALS, status, feed,
          entry_tf_candles, last_close_time, in_position, bars_in_trade,
          trades, trade_counter, current_trade, logic, csv, orders, tick>>

configVars == <<DRY_RUN, ENABLE_LIVE_TRADING, API_CREDENTIALS>>
executorVars == <<entry_tf_candles, last_close_time, in_position, bars_in_trade,
                  trades, trade_counter, current_trade>>

----------------------------------------------------------------------------
\* Bounds of the model

MaxTime == 6      \* candles the feed produces in one run
MaxTimeLong == 8  \* candles the flat feed produces in one run

----------------------------------------------------------------------------
\* Inputs

\* closes of the candles the feed produces
Prices == {2, 3}

\* a candle opens below every close or at the highest close
OpenPrices == {1, 3}

\* closes of the candles the flat feed produces
FlatPrices == {2}

\* prices at which the exchange fills a market order
FillPrices == {3}

----------------------------------------------------------------------------
\* Program constants (scaled)

entry_ema == 2
rsi_period == 2
rsi_entry == 50
confirm_ema_fast == 1
confirm_ema_slow == 2
exit_bars == 2
confirm_tf_multiple == 2
POSITION_SIZE == 2
KlineLimit == 3

None == 0
PyFalse == "False"
NoTrend == "None"
NpTrue == "np.True_"
NpFalse == "np.False_"

SYMBOL == "BTCUSDT"
ENV == "SPOT_TESTNET"

----------------------------------------------------------------------------
\* Python helpers

Max(a, b) == IF a >= b THEN a ELSE b

Last(s) == s[Len(s)]

\* s[-n:] for n >= 1
Tail_n(s, n) == IF Len(s) <= n THEN s ELSE SubSeq(s, Len(s) - n + 1, Len(s))

EmptyDict == [k \in {} |-> None]

\* dict.get(key)
Get(d, k) == IF k \in DOMAIN d THEN d[k] ELSE None

\* dict.update(u)
Update(d, u) == [k \in (DOMAIN d) \cup (DOMAIN u) |-> IF k \in DOMAIN u THEN u[k] ELSE d[k]]

RECURSIVE Sum(_, _)
Sum(f, n) == IF n = 0 THEN 0 ELSE f[n] + Sum(f, n - 1)

----------------------------------------------------------------------------
\* Indicator helpers (multi_tf.py)

Unavailable == [num |-> 0, den |-> 0]

Q(n, d) == [num |-> n, den |-> d]
QLe(a, b) == a.num * b.den <= b.num * a.den
QLt(a, b) == a.num * b.den < b.num * a.den

RECURSIVE EmaFold(_, _, _)
EmaFold(values, period, k) ==
    IF k = 1
    THEN Q(values[1], 1)
    ELSE LET prev == EmaFold(values, period, k - 1)
         IN  \* alpha * v + (1 - alpha) * prev, alpha = 2 / (period + 1)
             Q(2 * values[k] * prev.den + (period - 1) * prev.num,
               (period + 1) * prev.den)

ema(values, period) ==
    IF Len(values) < period THEN Unavailable
    ELSE EmaFold(values, period, Len(values))

\* variant: the averages are taken over every delta of the series
rsi_WholeSeries(values, period) ==
    IF Len(values) < period + 1 THEN Unavailable
    ELSE LET n      == Len(values) - 1
             deltas == [i \in 1..n |-> values[i + 1] - values[i]]
             gains  == [i \in 1..n |-> IF deltas[i] > 0 THEN deltas[i] ELSE 0]
             losses == [i \in 1..n |-> IF deltas[i] < 0 THEN -deltas[i] ELSE 0]
             sum_gain == Sum(gains, n)
             sum_loss == Sum(losses, n)
         IN  IF sum_loss = 0 THEN Q(100, 1)
             ELSE LET rs       == Q(sum_gain, sum_loss)
                      one_plus == Q(rs.den + rs.num, rs.den)
                      hundred_over == Q(100 * one_plus.den, one_plus.num)
                  IN  Q(100 * hundred_over.den - hundred_over.num, hundred_over.den)

rsi(values, period) ==
    IF Len(values) < period + 1 THEN Unavailable
    ELSE LET n      == Len(values) - 1
             deltas == [i \in 1..n |-> values[i + 1] - values[i]]
             gains  == [i \in 1..n |-> IF deltas[i] > 0 THEN deltas[i] ELSE 0]
             losses == [i \in 1..n |-> IF deltas[i] < 0 THEN -deltas[i] ELSE 0]
             g      == Tail_n(gains, period)
             l      == Tail_n(losses, period)
             sum_gain == Sum(g, Len(g))     \* avg_gain = sum_gain / period
             sum_loss == Sum(l, Len(l))     \* avg_loss = sum_loss / period
         IN  IF sum_loss = 0 THEN Q(100, 1)
             ELSE LET rs       == Q(sum_gain, sum_loss)
                      one_plus == Q(rs.den + rs.num, rs.den)
                      hundred_over == Q(100 * one_plus.den, one_plus.num)
                  IN  Q(100 * hundred_over.den - hundred_over.num, hundred_over.den)

----------------------------------------------------------------------------
\* Strategy logic (multi_tf.py)

LogicInit ==
    [bar_index |-> 0, bars_in_trade |-> 0,
     htf_trend_bullish |-> NoTrend, htf_closes |-> <<>>]

\* fast > slow, as the numpy.bool_ the comparison of two numpy floats yields
TrendFlag(fast, slow) == IF QLt(slow, fast) THEN NpTrue ELSE NpFalse

\* variant: the history-length test is off by one
UpdateConfirmTrend_OffByOne(lg, closes) ==
    LET htf == Append(lg.htf_closes, Last(closes))
    IN  IF Len(htf) <= confirm_ema_slow
        THEN [lg EXCEPT !.htf_closes = htf, !.htf_trend_bullish = NoTrend]
        ELSE LET fast == ema(Tail_n(htf, confirm_ema_fast), confirm_ema_fast)
                 slow == ema(Tail_n(htf, confirm_ema_slow), confirm_ema_slow)
             IN  [lg EXCEPT !.htf_closes = htf,
                            !.htf_trend_bullish = TrendFlag(fast, slow)]

\* variant: the history is a rolling window of the slow period
UpdateConfirmTrend_Rolling(lg, closes) ==
    LET htf == Tail_n(Append(lg.htf_closes, Last(closes)), confirm_ema_slow)
    IN  IF Len(htf) < confirm_ema_slow
        THEN [lg EXCEPT !.htf_closes = htf, !.htf_trend_bullish = NoTrend]
        ELSE LET fast == ema(Tail_n(htf, confirm_ema_fast), confirm_ema_fast)
                 slow == ema(Tail_n(htf, confirm_ema_slow), confirm_ema_slow)
             IN  [lg EXCEPT !.htf_closes = htf,
                            !.htf_trend_bullish = TrendFlag(fast, slow)]

UpdateConfirmTrend(lg, closes) ==
    LET htf == Append(lg.htf_closes, Last(closes))
    IN  IF Len(htf) < confirm_ema_slow
        THEN [lg EXCEPT !.htf_closes = htf, !.htf_trend_bullish = NoTrend]
        ELSE LET fast == ema(Tail_n(htf, confirm_ema_fast), confirm_ema_fast)
                 slow == ema(Tail_n(htf, confirm_ema_slow), confirm_ema_slow)
             IN  [lg EXCEPT !.htf_closes = htf,
                            !.htf_trend_bullish = TrendFlag(fast, slow)]

\* `self.htf_trend_bullish is False`: identity with the Python singleton False
TrendBlocksEntry(flag) == flag = PyFalse

\* variant: the exit fires one bar late
ExitDue_Late(n) == n > exit_bars

\* `self.bars_in_trade >= self.exit_bars`
ExitDue(n) == n >= exit_bars

\* variant: the length test lacks the + 1 that rsi needs
TooShort_NoPlusOne(closes) == Len(closes) < Max(entry_ema, rsi_period)

\* len(closes) < max(entry_ema, rsi_period) + 1
TooShort(closes) == Len(closes) < Max(entry_ema, rsi_period) + 1

\* variant: the pullback test is strict
Pullback_Strict(closes) ==
    QLt(Q(Last(closes), 1), ema(Tail_n(closes, entry_ema), entry_ema))

Pullback(closes) == QLe(Q(Last(closes), 1), ema(Tail_n(closes, entry_ema), entry_ema))
RsiOk(closes) == QLe(Q(rsi_entry, 1), rsi(Tail_n(closes, rsi_period + 1), rsi_period))
BullishCandle(opens, closes) == Last(closes) > Last(opens)

EntrySignal(opens, closes) ==
    Pullback(closes) /\ RsiOk(closes) /\ BullishCandle(opens, closes)

\* variant: while positioned and the exit is not due, control falls through to
\* the entry logic instead of returning None
OnBar_FallsThrough(lg, opens, closes, inpos) ==
    LET l1 == [lg EXCEPT !.bar_index = @ + 1]
        l2 == IF l1.bar_index % confirm_tf_multiple = 0
              THEN UpdateConfirmTrend(l1, closes)
              ELSE l1
        n  == l2.bars_in_trade + 1
        l3 == IF inpos THEN [l2 EXCEPT !.bars_in_trade = n] ELSE l2
    IN  IF inpos /\ ExitDue(n)
        THEN [logic |-> [l2 EXCEPT !.bars_in_trade = 0], decision |-> "SELL"]
        ELSE IF TrendBlocksEntry(l3.htf_trend_bullish)
             THEN [logic |-> l3, decision |-> "None"]
             ELSE IF TooShort(closes)
                  THEN [logic |-> l3, decision |-> "None"]
                  ELSE IF EntrySignal(opens, closes)
                       THEN [logic |-> l3, decision |-> "BUY"]
                       ELSE [logic |-> l3, decision |-> "None"]

\* variant: the exit does not reset the engine's bar count
OnBar_NoReset(lg, opens, closes, inpos) ==
    LET l1 == [lg EXCEPT !.bar_index = @ + 1]
        l2 == IF l1.bar_index % confirm_tf_multiple = 0
              THEN UpdateConfirmTrend(l1, closes)
              ELSE l1
    IN  IF inpos
        THEN LET n == l2.bars_in_trade + 1
             IN  IF ExitDue(n)
                 THEN [logic |-> [l2 EXCEPT !.bars_in_trade = n], decision |-> "SELL"]
                 ELSE [logic |-> [l2 EXCEPT !.bars_in_trade = n], decision |-> "None"]
        ELSE IF TrendBlocksEntry(l2.htf_trend_bullish)
             THEN [logic |-> l2, decision |-> "None"]
             ELSE IF TooShort(closes)
                  THEN [logic |-> l2, decision |-> "None"]
                  ELSE IF EntrySignal(opens, closes)
                       THEN [logic |-> l2, decision |-> "BUY"]
                       ELSE [logic |-> l2, decision |-> "None"]

\* on_bar: the new logic state and the returned signal
OnBar(lg, opens, closes, inpos) ==
    LET l1 == [lg EXCEPT !.bar_index = @ + 1]
        l2 == IF l1.bar_index % confirm_tf_multiple = 0
              THEN UpdateConfirmTrend(l1, closes)
              ELSE l1
    IN  IF inpos
        THEN LET n == l2.bars_in_trade + 1
             IN  IF ExitDue(n)
                 THEN [logic |-> [l2 EXCEPT !.bars_in_trade = 0], decision |-> "SELL"]
                 ELSE [logic |-> [l2 EXCEPT !.bars_in_trade = n], decision |-> "None"]
        ELSE IF TrendBlocksEntry(l2.htf_trend_bullish)
             THEN [logic |-> l2, decision |-> "None"]
             ELSE IF TooShort(closes)
                  THEN [logic |-> l2, decision |-> "None"]
                  ELSE IF EntrySignal(opens, closes)
                       THEN [logic |-> l2, decision |-> "BUY"]
                       ELSE [logic |-> l2, decision |-> "None"]

----------------------------------------------------------------------------
\* Exchange wrapper (binance_spot.py)

\* What client.create_order can answer: an API error, or an order with fills
ApiError == [error |-> TRUE, fills |-> <<>>]
OrderResponses ==
    {ApiError, [error |-> FALSE, fills |-> <<>>]}
    \cup {[error |-> FALSE, fills |-> <<[price |-> p, qty |-> POSITION_SIZE]>>] : p \in FillPrices}

\* variant: no DRY_RUN branch, every order goes to the client
OrderOutcome_NoDryRun(resp) ==
    IF resp.error THEN "api_error"
    ELSE IF resp.fills = <<>> THEN "no_fills"
    ELSE "filled"

\* How place_market_order ends; every outcome but "simulated" is reached through
\* client.create_order
OrderOutcome(resp) ==
    IF DRY_RUN THEN "simulated"
    ELSE IF resp.error THEN "api_error"
    ELSE IF resp.fills = <<>> THEN "no_fills"
    ELSE "filled"

OrderReturns(resp) == OrderOutcome(resp) \in {"simulated", "filled"}

\* The execution dict place_market_order returns (timestamp is never read)
Execution(side, quantity, resp) ==
    IF DRY_RUN
    THEN [symbol |-> SYMBOL, side |-> side, price |-> None, executed_qty |-> quantity]
    ELSE LET n == Len(resp.fills)
             executed_qty == Sum([i \in 1..n |-> resp.fills[i].qty], n)
             notional == Sum([i \in 1..n |-> resp.fills[i].price * resp.fills[i].qty], n)
         IN  [symbol |-> SYMBOL, side |-> side,
              price |-> notional \div executed_qty, executed_qty |-> executed_qty]

OrderLog(side, quantity, resp) ==
    [side |-> side, quantity |-> quantity,
     bar |-> logic.bar_index + 1, time |-> Last(feed).close_time,
     outcome |-> OrderOutcome(resp), sent |-> OrderOutcome(resp) # "simulated"]

----------------------------------------------------------------------------
\* Trade journal (data.py)

Isoformat(t) == <<"iso", t>>

CsvRow(trade) ==
    [trade_id |-> Get(trade, "trade_id"),
     symbol |-> Get(trade, "symbol"),
     direction |-> Get(trade, "direction"),
     entry_time |-> IF Get(trade, "entry_time") # None
                    THEN Isoformat(trade["entry_time"]) ELSE None,
     entry_price |-> Get(trade, "entry_price"),
     exit_time |-> IF Get(trade, "exit_time") # None
                   THEN Isoformat(trade["exit_time"]) ELSE None,
     exit_price |-> Get(trade, "exit_price"),
     bars_held |-> Get(trade, "bars_held"),
     environment |-> Get(trade, "environment")]

\* variant: every trade of the list is written on each call
WriteTradesToCsv_All(rows, trade_list, write_ok) ==
    IF trade_list = <<>> THEN rows
    ELSE IF write_ok
         THEN rows \o [i \in 1..Len(trade_list) |-> CsvRow(trade_list[i])]
         ELSE rows

\* write_trades_to_csv: appends the most recent trade; a failed write is swallowed
WriteTradesToCsv(rows, trade_list, write_ok) ==
    IF trade_list = <<>> THEN rows
    ELSE IF write_ok THEN Append(rows, CsvRow(Last(trade_list)))
    ELSE rows

----------------------------------------------------------------------------
\* Configuration checks (config_checks.py, BinanceSpotExchange.__init__)

\* <<DRY_RUN, ENABLE_LIVE_TRADING, credentials set>>: the shipped config.py,
\* live execution, and two settings the checks reject
Configs ==
    {<<TRUE, FALSE, FALSE>>, <<FALSE, TRUE, TRUE>>,
     <<FALSE, FALSE, TRUE>>, <<FALSE, TRUE, FALSE>>}

\* every combination of the two mode flags and the credentials
AllConfigs == BOOLEAN \X BOOLEAN \X BOOLEAN

ValidateConfig ==
    /\ ~(~ENABLE_LIVE_TRADING /\ ~DRY_RUN)
    /\ confirm_ema_fast < confirm_ema_slow
    /\ exit_bars > 0
    /\ POSITION_SIZE > 0
    /\ (~DRY_RUN => API_CREDENTIALS)

\* the gates of BinanceSpotExchange.__init__, which the executor constructs
ExchangeGates ==
    /\ ~(~ENABLE_LIVE_TRADING /\ ~DRY_RUN)
    /\ ENV \in {"SPOT_TESTNET", "SPOT_MAINNET"}
    /\ (~DRY_RUN => API_CREDENTIALS)

----------------------------------------------------------------------------
\* Executor (executor.py)

\* f"T{n:03d}": prefix and zero-padded decimal digits
RECURSIVE Digits(_)
Digits(n) == IF n < 10 THEN <<n>> ELSE Append(Digits(n \div 10), n % 10)
TradeId(n) ==
    LET d == Digits(n)
    IN  <<"T">> \o (IF Len(d) >= 3 THEN d ELSE [i \in 1..(3 - Len(d)) |-> 0] \o d)

Opens(candles) == [i \in 1..Len(candles) |-> candles[i].open]
Closes(candles) == [i \in 1..Len(candles) |-> candles[i].close]

\* variant: the watermark is compared with the oldest candle of the batch
IsNewCandle_Oldest(candles, watermark) ==
    /\ candles # <<>>
    /\ candles[1].close_time # watermark

\* variant: no watermark comparison
IsNewCandle_NoDedup(candles, watermark) == candles # <<>>

\* _fetch_new_closed_candle returns a candle (not None) for this batch
IsNewCandle(candles, watermark) ==
    /\ candles # <<>>
    /\ Last(candles).close_time # watermark

\* variant: the bar count is never advanced
PositionTracking_Off(inpos, n) == n

\* `if self.in_position: self.bars_in_trade += 1` at the end of an iteration
PositionTracking(inpos, n) == IF inpos THEN n + 1 ELSE n

\* the on_bar call of this iteration
Bar == OnBar(logic, Opens(feed), Closes(feed), in_position)

Accepted == status = "running" /\ IsNewCandle(feed, last_close_time)

TickOf(kind, decision, order) ==
    [kind |-> kind, decision |-> decision, was_in_position |-> in_position,
     order |-> order]

\* validate_config(), then LiveTradingExecutor(), under one of the configs cs
Start(cs) ==
    /\ \E c \in cs :
         /\ DRY_RUN = c[1]
         /\ ENABLE_LIVE_TRADING = c[2]
         /\ API_CREDENTIALS = c[3]
    /\ status = IF ValidateConfig /\ ExchangeGates THEN "running" ELSE "config_error"
    /\ feed = <<>>
    /\ entry_tf_candles = <<>>
    /\ last_close_time = None
    /\ in_position = FALSE
    /\ bars_in_trade = 0
    /\ trades = <<>>
    /\ trade_counter = 0
    /\ current_trade = EmptyDict
    /\ logic = LogicInit
    /\ csv = <<>>
    /\ orders = <<>>
    /\ tick = [kind |-> "start", decision |-> "None", was_in_position |-> FALSE,
               order |-> "none"]

Init == Start(Configs)

\* the same program started under any configuration
InitAnyConfig == Start(AllConfigs)

\* Environment: one more base-timeframe candle closes at the exchange
CandleClose ==
    /\ status = "running"
    /\ LET t == IF feed = <<>> THEN 1 ELSE Last(feed).close_time + 1
       IN  /\ t <= MaxTime
           /\ \E o \in OpenPrices, c \in Prices :
                feed' = Tail_n(Append(feed, [close_time |-> t, open |-> o, close |-> c]),
                               KlineLimit)
    /\ UNCHANGED <<configVars, status, executorVars, logic, csv, orders, tick>>

\* variant: the raising fetch is caught and the loop polls again
FetchFails_Retried ==
    /\ status = "running"
    /\ tick' = TickOf("fetch_error", "None", "none")
    /\ UNCHANGED <<configVars, status, feed, executorVars, logic, csv, orders>>

\* get_klines raises: the exception leaves run()
FetchFails ==
    /\ status = "running"
    /\ status' = "crashed"
    /\ tick' = TickOf("fetch_error", "None", "none")
    /\ UNCHANGED <<configVars, feed, executorVars, logic, csv, orders>>

\* _fetch_new_closed_candle returns None: sleep and poll again
PollNoNewCandle ==
    /\ status = "running"
    /\ ~IsNewCandle(feed, last_close_time)
    /\ tick' = TickOf("idle", "None", "none")
    /\ UNCHANGED <<configVars, status, feed, executorVars, logic, csv, orders>>

\* A new candle, and neither the entry nor the exit branch is taken
NoAction(bar) ==
    /\ Accepted
    /\ ~(bar.decision = "BUY" /\ ~in_position)
    /\ ~(bar.decision = "SELL" /\ in_position)
    /\ last_close_time' = Last(feed).close_time
    /\ entry_tf_candles' = feed
    /\ logic' = bar.logic
    /\ bars_in_trade' = PositionTracking(in_position, bars_in_trade)
    /\ tick' = TickOf("bar", bar.decision, "none")
    /\ UNCHANGED <<configVars, status, feed, in_position, trades, trade_counter,
                   current_trade, csv, orders>>

BarNoAction == NoAction(Bar)

\* variant: the entry branch does not test in_position
Entry_NoPositionCheck(bar) ==
    /\ Accepted
    /\ bar.decision = "BUY"
    /\ \E resp \in OrderResponses :
         /\ OrderReturns(resp)
         /\ LET execution == Execution("BUY", POSITION_SIZE, resp)
            IN  /\ current_trade' =
                      [trade_id |-> TradeId(trade_counter + 1),
                       symbol |-> SYMBOL,
                       direction |-> "LONG",
                       entry_time |-> Last(feed).close_time,
                       entry_price |-> execution.price,
                       quantity |-> execution.executed_qty]
                /\ orders' = Append(orders, OrderLog("BUY", POSITION_SIZE, resp))
    /\ last_close_time' = Last(feed).close_time
    /\ entry_tf_candles' = feed
    /\ logic' = bar.logic
    /\ in_position' = TRUE
    /\ trade_counter' = trade_counter + 1
    /\ bars_in_trade' = PositionTracking(TRUE, 0)
    /\ tick' = TickOf("bar", bar.decision, "ok")
    /\ UNCHANGED <<configVars, status, feed, trades, csv>>

\* A new candle, BUY while flat, and the order returns
Entry(bar) ==
    /\ Accepted
    /\ bar.decision = "BUY" /\ ~in_position
    /\ \E resp \in OrderResponses :
         /\ OrderReturns(resp)
         /\ LET execution == Execution("BUY", POSITION_SIZE, resp)
            IN  /\ current_trade' =
                      [trade_id |-> TradeId(trade_counter + 1),
                       symbol |-> SYMBOL,
                       direction |-> "LONG",
                       entry_time |-> Last(feed).close_time,
                       entry_price |-> execution.price,
                       quantity |-> execution.executed_qty]
                /\ orders' = Append(orders, OrderLog("BUY", POSITION_SIZE, resp))
    /\ last_close_time' = Last(feed).close_time
    /\ entry_tf_candles' = feed
    /\ logic' = bar.logic
    /\ in_position' = TRUE
    /\ trade_counter' = trade_counter + 1
    /\ bars_in_trade' = PositionTracking(TRUE, 0)
    /\ tick' = TickOf("bar", bar.decision, "ok")
    /\ UNCHANGED <<configVars, status, feed, trades, csv>>

BarEntry == Entry(Bar)

\* variant: a failing journal write raises out of the exit branch
BarExit_WriteRaises ==
    /\ Accepted
    /\ Bar.decision = "SELL" /\ in_position
    /\ \E resp \in OrderResponses, write_ok \in BOOLEAN :
         /\ OrderReturns(resp)
         /\ LET execution == Execution("SELL", POSITION_SIZE, resp)
                completed ==
                    Update(current_trade,
                           [exit_time |-> Last(feed).close_time,
                            exit_price |-> execution.price,
                            bars_held |-> bars_in_trade,
                            environment |-> IF DRY_RUN THEN "DRY_RUN" ELSE ENV])
            IN  /\ trades' = Append(trades, completed)
                /\ csv' = WriteTradesToCsv(csv, trades', write_ok)
                /\ orders' = Append(orders, OrderLog("SELL", POSITION_SIZE, resp))
                /\ current_trade' = IF write_ok THEN EmptyDict ELSE completed
         /\ status' = IF write_ok THEN status ELSE "crashed"
         /\ bars_in_trade' = IF write_ok THEN PositionTracking(FALSE, 0) ELSE bars_in_trade
    /\ last_close_time' = Last(feed).close_time
    /\ entry_tf_candles' = feed
    /\ logic' = Bar.logic
    /\ in_position' = FALSE
    /\ tick' = TickOf("bar", Bar.decision, "ok")
    /\ UNCHANGED <<configVars, feed, trade_counter>>

\* A new candle, SELL while in position, and the order returns
Exit(bar) ==
    /\ Accepted
    /\ bar.decision = "SELL" /\ in_position
    /\ \E resp \in OrderResponses, write_ok \in BOOLEAN :
         /\ OrderReturns(resp)
         /\ LET execution == Execution("SELL", POSITION_SIZE, resp)
                completed ==
                    Update(current_trade,
                           [exit_time |-> Last(feed).close_time,
                            exit_price |-> execution.price,
                            bars_held |-> bars_in_trade,
                            environment |-> IF DRY_RUN THEN "DRY_RUN" ELSE ENV])
            IN  /\ trades' = Append(trades, completed)
                /\ csv' = WriteTradesToCsv(csv, trades', write_ok)
                /\ orders' = Append(orders, OrderLog("SELL", POSITION_SIZE, resp))
    /\ last_close_time' = Last(feed).close_time
    /\ entry_tf_candles' = feed
    /\ logic' = bar.logic
    /\ in_position' = FALSE
    /\ current_trade' = EmptyDict
    /\ bars_in_trade' = PositionTracking(FALSE, 0)
    /\ tick' = TickOf("bar", bar.decision, "ok")
    /\ UNCHANGED <<configVars, status, feed, trade_counter>>

BarExit == Exit(Bar)

\* variant: the position flag is flipped before the order call, so a raising
\* order leaves it flipped
BarOrderFails_StateFirst ==
    /\ Accepted
    /\ \/ Bar.decision = "BUY" /\ ~in_position
       \/ Bar.decision = "SELL" /\ in_position
    /\ \E resp \in OrderResponses :
         /\ ~OrderReturns(resp)
         /\ orders' = Append(orders, OrderLog(Bar.decision, POSITION_SIZE, resp))
    /\ last_close_time' = Last(feed).close_time
    /\ entry_tf_candles' = feed
    /\ logic' = Bar.logic
    /\ in_position' = ~in_position
    /\ status' = "crashed"
    /\ tick' = TickOf("bar", Bar.decision, "failed")
    /\ UNCHANGED <<configVars, feed, bars_in_trade, trades, trade_counter,
                   current_trade, csv>>

\* variant: the raising order is caught and logged, and the loop goes on
BarOrderFails_Swallowed ==
    /\ Accepted
    /\ \/ Bar.decision = "BUY" /\ ~in_position
       \/ Bar.decision = "SELL" /\ in_position
    /\ \E resp \in OrderResponses :
         /\ ~OrderReturns(resp)
         /\ orders' = Append(orders, OrderLog(Bar.decision, POSITION_SIZE, resp))
    /\ last_close_time' = Last(feed).close_time
    /\ entry_tf_candles' = feed
    /\ logic' = Bar.logic
    /\ bars_in_trade' = PositionTracking(in_position, bars_in_trade)
    /\ tick' = TickOf("bar", Bar.decision, "failed")
    /\ UNCHANGED <<configVars, status, feed, in_position, trades, trade_counter,
                   current_trade, csv>>

\* A new candle, an order is attempted and place_market_order raises
OrderFails(bar) ==
    /\ Accepted
    /\ \/ bar.decision = "BUY" /\ ~in_position
       \/ bar.decision = "SELL" /\ in_position
    /\ \E resp \in OrderResponses :
         /\ ~OrderReturns(resp)
         /\ orders' = Append(orders, OrderLog(bar.decision, POSITION_SIZE, resp))
    /\ last_close_time' = Last(feed).close_time
    /\ entry_tf_candles' = feed
    /\ logic' = bar.logic
    /\ status' = "crashed"
    /\ tick' = TickOf("bar", bar.decision, "failed")
    /\ UNCHANGED <<configVars, feed, in_position, bars_in_trade, trades, trade_counter,
                   current_trade, csv>>

BarOrderFails == OrderFails(Bar)

Next ==
    \/ CandleClose
    \/ FetchFails
    \/ PollNoNewCandle
    \/ BarNoAction
    \/ BarEntry
    \/ BarExit
    \/ BarOrderFails

Spec == Init /\ [][Next]_vars

SpecAnyConfig == InitAnyConfig /\ [][Next]_vars

\* The loop around an engine that may also return the signal that does not fit
\* the position (BUY while in_position, SELL while flat): on_bar's state update
\* with the returned value replaced by d
Misfit == IF in_position THEN "BUY" ELSE "SELL"
Decisions == {Bar.decision, Misfit}
AnyBar(d) == [logic |-> Bar.logic, decision |-> d]

AnyNoAction == \E d \in Decisions : NoAction(AnyBar(d))
AnyEntry == \E d \in Decisions : Entry(AnyBar(d))
AnyExit == \E d \in Decisions : Exit(AnyBar(d))
AnyOrderFails == \E d \in Decisions : OrderFails(AnyBar(d))

NextAnyEngine ==
    \/ CandleClose
    \/ FetchFails
    \/ PollNoNewCandle
    \/ AnyNoAction
    \/ AnyEntry
    \/ AnyExit
    \/ AnyOrderFails

\* started live (every action of the loop can happen)
InitLive == Start({<<FALSE, TRUE, TRUE>>})

SpecAnyEngine == InitLive /\ [][NextAnyEngine]_vars

\* The same loop on a longer, flat feed (every candle closes in FlatPrices), long
\* enough for several trades to be opened and closed
CandleCloseLong ==
    /\ status = "running"
    /\ LET t == IF feed = <<>> THEN 1 ELSE Last(feed).close_time + 1
       IN  /\ t <= MaxTimeLong
           /\ \E o \in OpenPrices, c \in FlatPrices :
                feed' = Tail_n(Append(feed, [close_time |-> t, open |-> o, close |-> c]),
                               KlineLimit)
    /\ UNCHANGED <<configVars, status, executorVars, logic, csv, orders, tick>>

NextLong ==
    \/ CandleCloseLong
    \/ FetchFails
    \/ PollNoNewCandle
    \/ BarNoAction
    \/ BarEntry
    \/ BarExit
    \/ BarOrderFails

SpecLong == Init /\ [][NextLong]_vars

\* The run in which no fetch and no order call raises
NextNoFailure ==
    \/ CandleClose
    \/ PollNoNewCandle
    \/ BarNoAction
    \/ BarEntry
    \/ BarExit

\* the step of an iteration that finds a new candle: the watermark moves to it
\* (the steps of BarNoAction, BarEntry and BarExit, and no other)
AcceptCandle == Accepted /\ last_close_time' = Last(feed).close_time

\* `while True` keeps polling, so a pending candle is eventually accepted and
\* decided; the feed keeps closing candles (up to MaxTime)
FairSpec ==
    /\ Init
    /\ [][NextNoFailure]_vars
    /\ WF_vars(CandleClose)
    /\ WF_last_close_time(AcceptCandle)

----------------------------------------------------------------------------
\* Properties

Returned(o) == o.outcome \in {"simulated", "filled"}
OrderIdx == 1..Len(orders)
NumSubmitted(side) == Cardinality({i \in OrderIdx : orders[i].side = side})
NumReturned(side) ==
    Cardinality({i \in OrderIdx : orders[i].side = side /\ Returned(orders[i])})

\* bar_index of the on_bar call that returned the latest BUY
LastBuyBar ==
    LET buys == {i \in OrderIdx : orders[i].side = "BUY"}
        last == CHOOSE i \in buys : \A j \in buys : j <= i
    IN  orders[last].bar

BatchOpens == Opens(entry_tf_candles)
BatchCloses == Closes(entry_tf_candles)

\* C1: a poll whose fetched batch ends in the candle of the watermark invokes
\* no on_bar, submits no order, and leaves the watermark, the retained batch,
\* in_position, bars_in_trade, trade_counter, current_trade and the journal
\* unchanged.
C1_DuplicatePollChangesNothing ==
    [][(/\ status = "running"
        /\ feed' = feed
        /\ feed # <<>>
        /\ Last(feed).close_time = last_close_time)
       => UNCHANGED <<logic, orders, last_close_time, entry_tf_candles, in_position,
                      bars_in_trade, trade_counter, current_trade, trades, csv>>]_vars

C1_Witness ==
    /\ tick.kind = "idle"
    /\ feed # <<>>
    /\ Last(feed).close_time = last_close_time
    /\ logic.bar_index >= 1

\* C2: in_position starts false; it becomes true only on an iteration whose
\* on_bar call returned BUY and whose BUY order returned, and false only on an
\* iteration whose on_bar call returned SELL and whose SELL order returned.
C2_PositionTransitions ==
    /\ in_position = FALSE
    /\ [][in_position' # in_position
          => /\ Accepted
             /\ logic' = Bar.logic
             /\ Bar.decision = (IF in_position' THEN "BUY" ELSE "SELL")
             /\ Len(orders') = Len(orders) + 1
             /\ Last(orders').side = Bar.decision
             /\ Returned(Last(orders'))
             /\ tick'.order = "ok"]_vars

C2_Witness ==
    /\ tick.kind = "bar"
    /\ tick.decision = "SELL"
    /\ tick.order = "ok"
    /\ tick.was_in_position
    /\ ~in_position

OrdersAlternate ==
    \A i \in OrderIdx : orders[i].side = (IF i % 2 = 1 THEN "BUY" ELSE "SELL")
OrdersPositionSize == \A i \in OrderIdx : orders[i].quantity = POSITION_SIZE
OneOrderPerCandle ==
    \A i \in OrderIdx : \A j \in OrderIdx : i < j => orders[i].time < orders[j].time

\* C3 as stated: the submitted orders alternate BUY, SELL, ... from BUY, each for
\* POSITION_SIZE, at most one per accepted candle, and BUYs submitted minus SELLs
\* submitted is 1 when in_position and 0 when not.
C3_SubmittedOrdersMatchPosition ==
    /\ OrdersAlternate
    /\ OrdersPositionSize
    /\ OneOrderPerCandle
    /\ NumSubmitted("BUY") - NumSubmitted("SELL") = (IF in_position THEN 1 ELSE 0)

\* C3 amended: the same, with the difference taken over the orders whose call
\* returned (an order whose call raised is submitted but changes no position).
C3_ReturnedOrdersMatchPosition ==
    /\ OrdersAlternate
    /\ OrdersPositionSize
    /\ OneOrderPerCandle
    /\ NumReturned("BUY") - NumReturned("SELL") = (IF in_position THEN 1 ELSE 0)

C3_Witness ==
    /\ Len(orders) >= 3
    /\ in_position
    /\ \A i \in OrderIdx : Returned(orders[i])

\* C4: after on_bar returned BUY at call k, it returns None on calls
\* k+1 .. k+exit_bars-1 and SELL on call k+exit_bars, whatever the candles are.
C4_ExitAfterExitBars ==
    (tick.kind = "bar" /\ tick.was_in_position)
    => LET k == LastBuyBar
           n == logic.bar_index
       IN  /\ k < n /\ n <= k + exit_bars
           /\ n < k + exit_bars => tick.decision = "None"
           /\ n = k + exit_bars => tick.decision = "SELL"

C4_Witness ==
    /\ tick.kind = "bar"
    /\ tick.was_in_position
    /\ tick.decision = "SELL"
    /\ logic.bar_index = LastBuyBar + exit_bars
    /\ ~TooShort(BatchCloses)
    /\ EntrySignal(BatchOpens, BatchCloses)

\* C5: on_bar called with in_position = true returns SELL or None, never BUY;
\* called with in_position = false it returns BUY or None, never SELL.
C5_SignalMatchesPosition ==
    tick.kind = "bar"
    => IF tick.was_in_position
       THEN tick.decision \in {"SELL", "None"}
       ELSE tick.decision \in {"BUY", "None"}

C5_Witness ==
    /\ tick.kind = "bar"
    /\ tick.was_in_position
    /\ tick.decision = "None"
    /\ ~TooShort(BatchCloses)
    /\ EntrySignal(BatchOpens, BatchCloses)

\* C6: when the latest trend update determined bearish (fast EMA not above slow
\* EMA), an on_bar call with in_position = false returns None.
C6_BearishBlocksEntry ==
    (tick.kind = "bar" /\ ~tick.was_in_position /\ logic.htf_trend_bullish = NpFalse)
    => tick.decision = "None"

\* C7: the trend flag is unknown while the higher-timeframe history has fewer
\* than confirm_ema_slow entries, definite once it has that many, and once
\* definite it never is unknown again.
C7_TrendKnownIffHistory ==
    /\ [](IF Len(logic.htf_closes) < confirm_ema_slow
          THEN logic.htf_trend_bullish = NoTrend
          ELSE logic.htf_trend_bullish \in {NpTrue, NpFalse})
    /\ [][logic.htf_trend_bullish # NoTrend => logic'.htf_trend_bullish # NoTrend]_vars

C7_Witness ==
    /\ Len(logic.htf_closes) > confirm_ema_slow
    /\ logic.htf_trend_bullish \in {NpTrue, NpFalse}

\* C8: flat, trend bullish or unknown, and enough closes: on_bar returns BUY
\* exactly when close <= EMA(entry_ema), RSI(rsi_period) >= rsi_entry and
\* close > open hold on the latest bar, and None otherwise.
C8_EntryIffThreeConditions ==
    (/\ tick.kind = "bar"
     /\ ~tick.was_in_position
     /\ logic.htf_trend_bullish \in {NpTrue, NoTrend}
     /\ Len(BatchCloses) >= Max(entry_ema, rsi_period) + 1)
    => LET c == BatchCloses
           all3 == /\ QLe(Q(Last(c), 1), ema(Tail_n(c, entry_ema), entry_ema))
                   /\ QLe(Q(rsi_entry, 1), rsi(Tail_n(c, rsi_period + 1), rsi_period))
                   /\ Last(c) > Last(BatchOpens)
       IN  tick.decision = (IF all3 THEN "BUY" ELSE "None")

C8_Witness ==
    /\ tick.kind = "bar"
    /\ ~tick.was_in_position
    /\ logic.htf_trend_bullish = NoTrend
    /\ tick.decision = "BUY"

\* C9: every record in the trades list has exit_time, exit_price, bars_held and
\* environment set to actual (non-None) values, in every execution mode.
C9_ExitFieldsPopulated ==
    \A i \in 1..Len(trades) :
        /\ {"exit_time", "exit_price", "bars_held", "environment"} \subseteq DOMAIN trades[i]
        /\ trades[i]["exit_time"] # None
        /\ trades[i]["exit_price"] # None
        /\ trades[i]["bars_held"] # None

\* C10: bars_held of every completed trade is the number of accepted candles
\* from its entry iteration to its exit iteration, which is exit_bars.
C10_BarsHeld ==
    \A i \in 1..Len(trades) :
        LET entry == orders[2 * i - 1]
            exit  == orders[2 * i]
        IN  /\ entry.side = "BUY" /\ entry.time = trades[i]["entry_time"]
            /\ exit.side = "SELL" /\ exit.time = trades[i]["exit_time"]
            /\ trades[i]["bars_held"] = exit.bar - entry.bar
            /\ trades[i]["bars_held"] = exit_bars

C10_Witness ==
    /\ Len(trades) >= 1
    /\ tick.kind = "bar"
    /\ tick.decision = "SELL"

\* C11: an iteration whose place_market_order call raises (API error, or a
\* response without fills) ends the loop; in_position, trade_counter,
\* current_trade, the trades list and the journal keep the values they had before
\* the order, and nothing is fetched or ordered afterwards.
C11_OrderFailureIsFatal ==
    /\ [][(Len(orders') > Len(orders) /\ ~Returned(Last(orders')))
          => /\ status' = "crashed"
             /\ UNCHANGED <<in_position, trade_counter, current_trade, trades, csv>>]_vars
    /\ [][status # "crashed"]_vars

C11_Witness ==
    /\ status = "crashed"
    /\ orders # <<>>
    /\ Last(orders).side = "SELL"
    /\ Last(orders).outcome = "no_fills"
    /\ in_position
    /\ tick.order = "failed"

\* C12: an iteration whose candle fetch raises ends the loop on that iteration:
\* no on_bar call, no order, the watermark and in_position unchanged, and no
\* later iteration (no retry).
C12_FetchFailureIsFatal ==
    /\ [][tick'.kind = "fetch_error"
          => /\ status' = "crashed"
             /\ UNCHANGED <<logic, orders, last_close_time, entry_tf_candles,
                            in_position>>]_vars
    /\ [][tick.kind # "fetch_error"]_vars

C12_Witness ==
    /\ tick.kind = "fetch_error"
    /\ status = "crashed"
    /\ in_position
    /\ last_close_time # None
    /\ Last(feed).close_time > last_close_time

\* C13: an exit iteration whose journal write fails does not end the loop: it
\* ends with in_position false, current_trade empty, bars_in_trade 0 and the
\* completed record appended to the trades list; later iterations run as usual.
C13_JournalFailureNotFatal ==
    [][(Len(trades') > Len(trades) /\ csv' = csv)
       => /\ status' = "running"
          /\ ~in_position'
          /\ DOMAIN current_trade' = {}
          /\ bars_in_trade' = 0
          /\ SubSeq(trades', 1, Len(trades)) = trades
          /\ Len(trades') = Len(trades) + 1
          /\ Last(trades')["trade_id"] = current_trade["trade_id"]
          /\ Last(trades')["exit_time"] = Last(feed).close_time]_vars

\* a trade is missing from the journal and a later entry has been made
C13_Witness ==
    /\ Len(csv) < Len(trades)
    /\ status = "running"
    /\ in_position
    /\ tick.kind = "bar"
    /\ tick.decision = "BUY"
    /\ trade_counter = Len(trades) + 1

\* C14: an order reaches client.create_order only when DRY_RUN is false,
\* ENABLE_LIVE_TRADING is true and the credentials are set; with DRY_RUN true no
\* order reaches the client, whatever ENABLE_LIVE_TRADING is, and
\* place_market_order returns a simulated fill (no price, the requested quantity).
C14_RealOrdersOnlyWhenLive ==
    /\ \A i \in OrderIdx :
         /\ orders[i].sent => (~DRY_RUN /\ ENABLE_LIVE_TRADING /\ API_CREDENTIALS)
         /\ DRY_RUN => (~orders[i].sent /\ orders[i].outcome = "simulated")
    /\ (DRY_RUN /\ in_position)
       => /\ current_trade["entry_price"] = None
          /\ current_trade["quantity"] = POSITION_SIZE
    /\ status # "config_error" => (DRY_RUN \/ (ENABLE_LIVE_TRADING /\ API_CREDENTIALS))

C14_Witness ==
    /\ DRY_RUN
    /\ ENABLE_LIVE_TRADING
    /\ API_CREDENTIALS
    /\ Len(orders) >= 2
    /\ in_position

\* C15: on_bar is called once for each candle the feed closes after the first
\* accepted one: every call decides the candle that closed right after the
\* candle of the previous call (none twice, none skipped), whatever the
\* interleaving of polls and candle closes.
C15_OnBarOncePerCandle ==
    [][(logic'.bar_index # logic.bar_index /\ last_close_time # None)
       => /\ logic'.bar_index = logic.bar_index + 1
          /\ last_close_time' = last_close_time + 1]_vars

\* C16: every accepted candle closes strictly later than every candle accepted
\* before it (the watermark strictly increases), and a poll whose batch ends in a
\* candle not newer than the watermark accepts nothing.
C16_WatermarkStrictlyIncreases ==
    [][/\ logic'.bar_index # logic.bar_index
          => /\ last_close_time' > last_close_time
             /\ last_close_time' = Last(entry_tf_candles').close_time
       /\ last_close_time' >= last_close_time
       /\ (feed' = feed /\ feed # <<>> /\ Last(feed).close_time <= last_close_time)
          => UNCHANGED <<last_close_time, entry_tf_candles, logic>>]_vars

C16_Witness ==
    /\ tick.kind = "bar"
    /\ logic.bar_index >= 3
    /\ last_close_time > logic.bar_index

\* C17: with in_position passed as the loop keeps it, an on_bar call returns BUY
\* only while flat, and the BUY or SELL returned before it, if any, was a SELL:
\* never two BUYs without a SELL between them.
C17_NoBuyTwiceWithoutSell ==
    (tick.kind = "bar" /\ tick.decision = "BUY")
    => /\ ~tick.was_in_position
       /\ orders # <<>>
       /\ Last(orders).side = "BUY"
       /\ Last(orders).bar = logic.bar_index
       /\ Len(orders) = 1 \/ orders[Len(orders) - 1].side = "SELL"

\* a second BUY, after the SELL that closed the first trade
C17_Witness ==
    /\ tick.kind = "bar"
    /\ tick.decision = "BUY"
    /\ Len(orders) >= 3
    /\ orders[Len(orders) - 1].side = "SELL"
    /\ Last(orders).side = "BUY"

\* C18: the engine's bars_in_trade is 0 right after every on_bar call that
\* returned SELL or BUY; the executor's bars_in_trade is 0 at the end of every
\* exit iteration, and reset to 0 on entry, so that the entry iteration ends with
\* its own position-tracking increment only.
C18_BarsInTradeReset ==
    (tick.kind = "bar" /\ tick.decision \in {"BUY", "SELL"})
    => /\ logic.bars_in_trade = 0
       /\ (tick.decision = "SELL" /\ tick.order = "ok") => bars_in_trade = 0
       /\ (tick.decision = "BUY" /\ tick.order = "ok")
          => bars_in_trade = PositionTracking(TRUE, 0)

\* the entry of a second trade: both counters had been counting before
C18_Witness ==
    /\ tick.kind = "bar"
    /\ tick.decision = "BUY"
    /\ tick.order = "ok"
    /\ Len(trades) >= 1
    /\ trades[1]["bars_held"] = exit_bars
    /\ bars_in_trade = 1
    /\ logic.bars_in_trade = 0

\* C19: every on_bar call adds one to bar_index; the higher-timeframe history
\* has floor(bar_index / confirm_tf_multiple) entries; a call appends the latest
\* close to it exactly when the new bar_index is a multiple of
\* confirm_tf_multiple, positioned or not, and otherwise leaves it as it is.
C19_TrendCadence ==
    /\ [](Len(logic.htf_closes) = logic.bar_index \div confirm_tf_multiple)
    /\ [][(logic' # logic \/ last_close_time' # last_close_time)
          => /\ logic'.bar_index = logic.bar_index + 1
             /\ logic'.htf_closes =
                   (IF logic'.bar_index % confirm_tf_multiple = 0
                    THEN Append(logic.htf_closes, Last(feed).close)
                    ELSE logic.htf_closes)]_vars

\* a third update, made while a position was open
C19_Witness ==
    /\ tick.kind = "bar"
    /\ tick.was_in_position
    /\ logic.bar_index = 3 * confirm_tf_multiple
    /\ Len(logic.htf_closes) = 3
    /\ Last(logic.htf_closes) = Last(BatchCloses)

\* the feed ended before the exit_bars-th candle of the open trade
FeedEndedFirst == last_close_time = MaxTime /\ logic.bars_in_trade < exit_bars

\* C20: when no fetch and no order call fails and the feed keeps closing
\* candles, an open position is eventually closed (unless the feed ends before
\* the trade's exit_bars-th candle), and it is closed on exactly the
\* exit_bars-th accepted candle after the entry candle.
C20_ExitEventually ==
    /\ in_position ~> (~in_position \/ FeedEndedFirst)
    /\ [][(in_position /\ ~in_position')
          => /\ logic'.bar_index = LastBuyBar + exit_bars
             /\ Last(orders').side = "SELL"
             /\ Last(orders').bar = LastBuyBar + exit_bars]_vars

C20_Witness ==
    /\ ~in_position
    /\ trades # <<>>
    /\ Last(orders).side = "SELL"
    /\ Last(orders).bar = orders[Len(orders) - 1].bar + exit_bars
    /\ Last(trades)["exit_time"] = last_close_time

\* C21: an iteration whose decision does not fit the position (BUY while
\* in_position, SELL while flat) submits no order and leaves in_position,
\* trade_counter, current_trade, the trades list and the journal unchanged, and
\* the loop goes on.
C21_InconsistentDecisionIgnored ==
    [][(/\ logic' # logic
        /\ \/ tick'.decision = "BUY" /\ in_position
           \/ tick'.decision = "SELL" /\ ~in_position)
       => /\ UNCHANGED <<orders, in_position, trade_counter, current_trade, trades, csv>>
          /\ status' = "running"
          /\ tick'.order = "none"]_vars

C21_Witness ==
    /\ tick.kind = "bar"
    /\ tick.decision = "BUY"
    /\ tick.was_in_position
    /\ in_position
    /\ Len(orders) = 1
    /\ bars_in_trade >= 2

\* C22: while no journal write has failed, the journal holds one row per
\* completed trade, in closing order, the i-th with trade id T00i; the journal
\* only grows, by one row per exit, and no earlier row changes.
C22_JournalRowsOncePerTrade ==
    /\ [](/\ Len(csv) <= Len(trades)
          /\ Len(csv) = Len(trades)
             => \A i \in 1..Len(csv) :
                  /\ csv[i] = CsvRow(trades[i])
                  /\ csv[i].trade_id = TradeId(i)
                  /\ csv[i].exit_time = Isoformat(orders[2 * i].time))
    /\ [][/\ Len(csv') \in {Len(csv), Len(csv) + 1}
          /\ SubSeq(csv', 1, Len(csv)) = csv
          /\ Len(csv') > Len(csv) => Len(trades') = Len(trades) + 1]_vars

\* two trades closed and journalled
C22_Witness ==
    /\ Len(csv) = 2
    /\ Len(trades) = 2
    /\ csv[1].trade_id = TradeId(1)
    /\ csv[2].trade_id = TradeId(2)
    /\ csv[1].exit_time # csv[2].exit_time

\* C23: every row of the journal carries all ten fields of the trade record, and
\* its quantity is the quantity executed at the entry.
C23_PersistedRowHasAllFields ==
    \A i \in 1..Len(csv) :
        /\ {"trade_id", "symbol", "direction", "entry_time", "entry_price",
            "exit_time", "exit_price", "quantity", "bars_held", "environment"}
               \subseteq DOMAIN csv[i]
        /\ csv[i]["quantity"] = orders[2 * i - 1].quantity

\* none of the trailing `period` bar-to-bar deltas of values is negative
NoLossInWindow(values, period) ==
    \A i \in (Len(values) - period)..(Len(values) - 1) : values[i + 1] >= values[i]

C25_CountersInLockStep ==
    status = "running"
    => /\ logic.bars_in_trade \in 0..(exit_bars - 1)
       /\ IF in_position
          THEN bars_in_trade = logic.bars_in_trade + 1
          ELSE bars_in_trade = 0 /\ logic.bars_in_trade = 0

C25_Witness ==
    /\ status = "running"
    /\ in_position
    /\ logic.bars_in_trade = exit_bars - 1
    /\ bars_in_trade = exit_bars
    /\ tick.kind = "bar"
    /\ tick.decision = "None"

\* C26: current_trade is non-empty exactly when in_position is true, and the
\* trades list has trade_counter - 1 records when in_position is true and
\* trade_counter records when it is false.
C26_OpenTradeIffInPosition ==
    /\ (DOMAIN current_trade # {}) <=> in_position
    /\ in_position => current_trade["trade_id"] = TradeId(trade_counter)
    /\ Len(trades) = (IF in_position THEN trade_counter - 1 ELSE trade_counter)

\* the second trade is open, the first one is in the list
C26_Witness ==
    /\ in_position
    /\ trade_counter = 2
    /\ Len(trades) = 1
    /\ current_trade["trade_id"] = TradeId(2)
    /\ trades[1]["trade_id"] = TradeId(1)

\* the flat call of the last iteration got past the trend and length tests
ReachedEntryComparison ==
    /\ tick.kind = "bar"
    /\ ~tick.was_in_position
    /\ ~TrendBlocksEntry(logic.htf_trend_bullish)
    /\ ~TooShort(BatchCloses)

\* C27: when on_bar reaches the entry comparison, ema and rsi of the slices it
\* passes are numbers; when the trend update reaches fast > slow, both EMAs are
\* numbers; on fewer values than the period needs ema returns unavailable, and a
\* flat call on a batch that is too short returns None.
C27_NoComparisonWhileUnavailable ==
    /\ ReachedEntryComparison
       => /\ ema(Tail_n(BatchCloses, entry_ema), entry_ema) # Unavailable
          /\ rsi(Tail_n(BatchCloses, rsi_period + 1), rsi_period) # Unavailable
    /\ Len(logic.htf_closes) >= confirm_ema_slow
       => /\ ema(Tail_n(logic.htf_closes, confirm_ema_fast), confirm_ema_fast) # Unavailable
          /\ ema(Tail_n(logic.htf_closes, confirm_ema_slow), confirm_ema_slow) # Unavailable
    /\ \A p \in 1..(Max(entry_ema, rsi_period) + 1) :
         /\ (ema(BatchCloses, p) = Unavailable) <=> (Len(BatchCloses) < p)
         /\ (rsi(BatchCloses, p) = Unavailable) <=> (Len(BatchCloses) < p + 1)
    /\ (tick.kind = "bar" /\ ~tick.was_in_position /\ TooShort(BatchCloses))
       => tick.decision = "None"

\* both comparisons made on available values: a known trend and an entry
C27_Witness ==
    /\ ReachedEntryComparison
    /\ Len(logic.htf_closes) >= confirm_ema_slow
    /\ logic.htf_trend_bullish = NpTrue
    /\ tick.decision = "BUY"
    /\ Len(BatchCloses) = Max(entry_ema, rsi_period) + 1

====
